---- MODULE Spec2Model ----
(***************************************************************************)
(* project_analyzer.py: the Orchestrator (main, process_all_directories),  *)
(* the Directory Analyzer (analyze_single_directory), the Analysis Client  *)
(* (analyze_with_claude) and the Report Validator (verify_markdown).       *)
(*                                                                         *)
(* One asyncio task per collected directory.  A task yields only at an     *)
(* await that suspends: the semaphore acquire, the HTTP request and the    *)
(* asyncio.sleep calls.  Each action below is the code one task runs       *)
(* between two such points.                                                *)
(***************************************************************************)
EXTENDS Integers, Sequences, FiniteSets, TLC

\* ------------------------------------------------------------ constants
MAX_CONCURRENT_REQUESTS == 2
MAX_RETRIES == 5
RETRY_DELAY == 5
MinReportLength == 100

\* Bounds of the model: directories in the walked tree, the root included;
\* and the largest tree that is run against an API free to answer anything
\* (larger trees are run against an API that answers every request with a
\* 200 carrying content or with a 500, so that no client invocation retries).
MaxDirs == 3
MaxDirsAnyApi == 2

\* Bounds of the calls of a pure function on its own: the longest string
\* (and the largest max_length) handed to truncate_content, and the most
\* whitespace at either end of a text handed to verify_markdown.
MaxLen == 4
MaxPad == 2

\* SKIP_DIRS (lines 25-37) restricted to the names the model's trees use.
SKIP_DIRS == {"node_modules", "venv"}

\* Directory names of the model's trees.  "node_modules_bak" is not in
\* SKIP_DIRS but has 'node_modules' as a substring.
DirNames == {"src", "venv", "node_modules", "node_modules_bak"}

\* 'node_modules' in name, for the names of DirNames (line 251 tests the
\* whole path; the substring has no separator, so it lies in one component).
ContainsNodeModules(name) == name \in {"node_modules", "node_modules_bak"}

\* ANALYZE_EXTENSIONS (lines 40-45) restricted to the extensions in use.
ANALYZE_EXTENSIONS == {".py", ".md"}

\* Directory entries of the model: name, whether os.path.isfile holds, and
\* os.path.splitext(name)[1].
Entries ==
  { [name |-> "main.PY",  isfile |-> TRUE,  ext |-> ".PY"],
    [name |-> "logo.png", isfile |-> TRUE,  ext |-> ".png"] }

\* str.lower() on the extensions in use.
Lower(ext) == IF ext = ".PY" THEN ".py" ELSE ext

\* The contents a directory of the model may have.
Listings == { {e \in Entries : e.name = "logo.png"}, Entries }

\* ---------------------------------------------------------------- texts
(* A string is modelled by what the Validator reads of it: its length, the *)
(* whitespace str.strip() removes from its two ends, and the required      *)
(* section headers that occur in it.  A blank string has lead = len.       *)
required_sections ==
  {"overview", "architecture", "implementation", "dependencies", "core_flow"}

Text(n, l, t, s) == [len |-> n, lead |-> l, trail |-> t, secs |-> s]
EmptyText == Text(0, 0, 0, {})
IsBlank(t) == t.lead = t.len

\* a + b for strings
Concat(a, b) ==
  [ len   |-> a.len + b.len,
    lead  |-> IF IsBlank(a) THEN a.len + b.lead ELSE a.lead,
    trail |-> IF IsBlank(a) /\ IsBlank(b) THEN 0
              ELSE IF IsBlank(b) THEN a.trail + b.len ELSE b.trail,
    secs  |-> a.secs \cup b.secs ]

\* len(s.strip())
StripLen(t) == t.len - t.lead - t.trail

\* Texts the remote service may send.
FullReport    == Text(400, 0, 1, required_sections)
PartialReport == Text(400, 0, 0, required_sections \ {"core_flow"})
PlainBody     == Text(30, 0, 0, {})
EchoBody      == Text(300, 0, 1, required_sections)
ExcText       == Text(40, 0, 0, {})

\* ---------------------------------------------------------------- values
(* A Python value held by `analysis`: a str, a list (a JSON array), or      *)
(* None while no call has returned.                                        *)
(* origin records which return statement of analyze_with_claude built it,  *)
(* status the HTTP status an API-error string quotes (0 elsewhere).        *)
Value(ty, tx, n, org) ==
  [type |-> ty, text |-> tx, n |-> n, origin |-> org, status |-> 0]
NoValue == Value("none", EmptyText, 0, "none")
Str(tx, org) == Value("str", tx, tx.len, org)
List(n) == Value("list", EmptyText, n, "content")

\* ------------------------------------------------------------- validator
\* Mutant of verify_markdown: one required section is enough.
verify_markdown_AnySection(content) ==
  IF content.n = 0 THEN "False"
  ELSE IF content.type # "str" THEN "raise"
  ELSE IF StripLen(content.text) < MinReportLength THEN "False"
  ELSE IF \E section \in required_sections : section \in content.text.secs
       THEN "True" ELSE "False"

\* verify_markdown, lines 174-185.  Result "raise" is the AttributeError of
\* content.strip() on a value that has no strip method.
verify_markdown(content) ==
  IF content.n = 0 THEN "False"                       \* not content
  ELSE IF content.type # "str" THEN "raise"           \* content.strip()
  ELSE IF StripLen(content.text) < MinReportLength THEN "False"
  ELSE IF \A section \in required_sections : section \in content.text.secs
       THEN "True" ELSE "False"

\* ------------------------------------------------------------- truncator
(* truncate_content works on the characters of its argument, so here a     *)
(* string is the sequence of its characters.                               *)
MAX_CONTENT_LENGTH == 8000

\* The literal of line 62: a newline, three dots, five CJK characters in
\* parentheses, three dots, a newline.
ElisionMarker ==
  <<"\n", ".", ".", ".", "(", "nei", "rong", "yi", "jie", "duan", ")",
    ".", ".", ".", "\n">>

Min(a, b) == IF a <= b THEN a ELSE b
Max(a, b) == IF a >= b THEN a ELSE b

\* s[:n] for n >= 0
SliceTo(s, n) == SubSeq(s, 1, Min(n, Len(s)))

\* s[-n:] for n >= 0.  -0 is 0, and s[0:] is all of s.
SliceFromEnd(s, n) ==
  IF n = 0 THEN s ELSE SubSeq(s, Max(Len(s) - n, 0) + 1, Len(s))

\* truncate_content, lines 55-62
truncate_content(content, max_length) ==
  IF Len(content) <= max_length THEN content                   \* 57-58
  ELSE LET half_length == max_length \div 2 IN                 \* 61
       SliceTo(content, half_length) \o ElisionMarker
         \o SliceFromEnd(content, half_length)                 \* 62

\* ------------------------------------------------------- the remote API
(* What one session.post can come to: an HTTP response, or an exception of *)
(* the transport (aiohttp.ClientError) or of another class raised by the   *)
(* request (a timeout, a decoding error of response.text()).               *)
(* A body is: form "text" (not JSON), form "nokey" (JSON in which a key of *)
(* the path choices/0/message/content is missing), form "badpath" (JSON in *)
(* which the path hits a wrong type or an empty list), or form "content"   *)
(* (JSON whose choices[0].message.content is `content`).                   *)
Body(f, c, r) == [form |-> f, content |-> c, raw |-> r]
NoBody == Body("none", NoValue, EmptyText)
Outcome(k, st, b) == [kind |-> k, status |-> st, body |-> b]

Bodies200 ==
  { Body("content", Str(FullReport, "content"), PlainBody),
    Body("content", Str(PartialReport, "content"), PlainBody),
    Body("content", List(0), PlainBody),
    Body("content", List(1), PlainBody),
    Body("content", Value("null", EmptyText, 0, "content"), PlainBody),
    Body("text", NoValue, PlainBody),
    Body("nokey", NoValue, PlainBody),
    Body("badpath", NoValue, PlainBody) }

ErrorBodies == { Body("text", NoValue, PlainBody), Body("text", NoValue, EchoBody) }

RateLimited == { Outcome("response", 429, b) : b \in ErrorBodies }

Outcomes ==
  { Outcome("response", 200, b) : b \in Bodies200 }
  \cup RateLimited
  \cup { Outcome("response", 500, b) : b \in ErrorBodies }
  \cup { Outcome("ClientError", 0, NoBody), Outcome("Exception", 0, NoBody) }

\* A 200 whose body is not JSON, or lacks a key of the content path.
Malformed(o) ==
  o.kind = "response" /\ o.status = 200 /\ o.body.form \in {"text", "nokey"}

\* A response the client's first pass returns on: a 200 with content of a
\* type that has a length, or a status other than 200 and 429.
Answering(o) ==
  /\ o.kind = "response"
  /\ o.status # 429
  /\ o.status = 200 => o.body.form = "content" /\ o.body.content.type \in {"str", "list"}

\* The outcomes the API of this run can produce: anything, or (the stubs of
\* a test) a 429 to every request, a malformed 200 to every request, or
\* an answer to every request.
MalformedOutcomes == {o \in Outcomes : Malformed(o)}
AnsweringOutcomes == {o \in Outcomes : Answering(o)}
ApiOutcomes(profile) ==
  CASE profile = "always429" -> RateLimited
    [] profile = "malformed200" -> MalformedOutcomes
    [] profile = "answering" -> AnsweringOutcomes
    [] OTHER -> Outcomes

\* ------------------------------------------------------ Analysis Client
\* The f-strings of lines 144, 146, 154 and 162.
MaxRetriesMessage(response_text) ==
  Str(Concat(Text(19, 0, 1, {}), response_text), "max_retries")
ApiErrorMessage(status, response_text) ==
  [Str(Concat(Text(18, 0, 1, {}), response_text), "api_error") EXCEPT !.status = status]
NetworkErrorMessage ==
  Str(Concat(Text(14, 0, 1, {}), ExcText), "network_error")
ErrorMessage ==
  Str(Concat(Text(12, 0, 1, {}), ExcText), "error")

\* wait_time of lines 139, 150 and 158
wait_time(retry_count) == RETRY_DELAY * (retry_count + 1)

\* What a handler of the client comes to: it returns `value`, or it sleeps
\* `wait` seconds and calls analyze_with_claude again with retry_count + 1,
\* or (inside the try block) it raises `exc`.
Return(v) == [act |-> "return", value |-> v, wait |-> 0, exc |-> "none"]
Retry(w)  == [act |-> "retry",  value |-> NoValue, wait |-> w, exc |-> "none"]
Raise(e)  == [act |-> "raise",  value |-> NoValue, wait |-> 0, exc |-> e]

\* lines 124-136: status 200
OnSuccess(body) ==
  IF body.form = "text" THEN Raise("JSONDecodeError")       \* 126, 130-132
  ELSE IF body.form = "nokey" THEN Raise("KeyError")        \* 127, 133-136
  ELSE IF body.form = "badpath" THEN Raise("TypeError")     \* 127, not caught
  ELSE IF body.content.type \notin {"str", "list"}
       THEN Raise("TypeError")                              \* 128: len(content)
  ELSE Return(body.content)                                 \* 129

\* Mutant of OnRateLimit: the bound test lets one retry too many through.
OnRateLimit_OneMore(retry_count, body) ==
  IF retry_count <= MAX_RETRIES
    THEN Retry(wait_time(retry_count))
    ELSE Return(MaxRetriesMessage(body.raw))

\* lines 137-144: status 429
OnRateLimit(retry_count, body) ==
  IF retry_count < MAX_RETRIES
    THEN Retry(wait_time(retry_count))
    ELSE Return(MaxRetriesMessage(body.raw))

\* Mutant of OnOtherStatus: a server error is slept on and retried.
OnOtherStatus_Retried(status, body) == Retry(RETRY_DELAY)

\* lines 145-146: any other status
OnOtherStatus(status, body) == Return(ApiErrorMessage(status, body.raw))

\* Mutant of OnClientError: the bound test lets one retry too many through.
OnClientError_OneMore(retry_count) ==
  IF retry_count <= MAX_RETRIES
    THEN Retry(wait_time(retry_count))
    ELSE Return(NetworkErrorMessage)

\* lines 147-154: except aiohttp.ClientError
OnClientError(retry_count) ==
  IF retry_count < MAX_RETRIES
    THEN Retry(wait_time(retry_count))
    ELSE Return(NetworkErrorMessage)

\* Mutant of OnException: the handler reports the error without retrying.
OnException_NoRetry(retry_count) == Return(ErrorMessage)

\* lines 155-162: except Exception
OnException(retry_count) ==
  IF retry_count < MAX_RETRIES
    THEN Retry(wait_time(retry_count))
    ELSE Return(ErrorMessage)

\* lines 113-146: the try block
TryBlock(retry_count, o) ==
  IF o.kind # "response" THEN Raise(o.kind)                 \* 119-120
  ELSE IF o.status = 200 THEN OnSuccess(o.body)
  ELSE IF o.status = 429 THEN OnRateLimit(retry_count, o.body)
  ELSE OnOtherStatus(o.status, o.body)

\* lines 113-162: one pass through analyze_with_claude once the request
\* has come to outcome o.  No except clause re-raises, so the result is a
\* return or a retry; "raise" here would be an exception leaving the call.
analyze_with_claude(retry_count, o) ==
  LET t == TryBlock(retry_count, o) IN
  IF t.act # "raise" THEN t
  ELSE IF t.exc = "ClientError" THEN OnClientError(retry_count)
  ELSE OnException(retry_count)

\* ------------------------------------------------------ the file system
\* A directory is its path from the target directory: a sequence of names.
base_dir == <<"proj">>

\* The directory trees with at most n directories, base_dir included.
RECURSIVE Trees(_)
Trees(n) ==
  IF n <= 1 THEN {{base_dir}}
  ELSE LET smaller == Trees(n - 1) IN
       smaller \cup UNION { { t \cup {Append(p, name)} : p \in t, name \in DirNames } :
                            t \in smaller }

\* os.path.basename(dir_path)
basename(dir_path) == dir_path[Len(dir_path)]

\* 'node_modules' in root, line 251
InNodeModules(root) == \E i \in 1..Len(root) : ContainsNodeModules(root[i])

\* should_analyze_file, lines 164-167
should_analyze_file(entry) == Lower(entry.ext) \in ANALYZE_EXTENSIONS

\* should_skip_directory, lines 169-172
should_skip_directory(dir_path) == basename(dir_path) \in SKIP_DIRS

\* Mutant of EligibleFiles: every file counts, whatever its extension.
EligibleFiles_AnyFile(entries) == { e \in entries : e.isfile }

\* lines 193-202: the entries of the directory kept in `files`
EligibleFiles(entries) ==
  { e \in entries : e.isfile /\ should_analyze_file(e) }

\* Mutant of CollectDirs: the walk filters on should_skip_directory.
CollectDirs_BySkipName(walked) == { root \in walked : ~should_skip_directory(root) }

\* lines 246-253: the roots os.walk yields that are appended
CollectDirs(walked) == { root \in walked : ~InNodeModules(root) }

\* ---------------------------------------------------------------- state
VARIABLES
  isdir,            \* os.path.isdir(target_dir)
  tree,             \* the directories under (and including) the target
  listing,          \* os.listdir of each directory, files only
  api,              \* the behaviour of the remote API in this run
  run,              \* where main is
  dirs_to_process,  \* line 246; its order plays no part
  semaphore,        \* the permits left (asyncio.Semaphore._value)
  pc,               \* where each directory's task is
  retry_count,      \* analyze_single_directory's retry_count (line 222)
  client_retry,     \* analyze_with_claude's retry_count parameter
  analysis,         \* analyze_single_directory's analysis
  requests,         \* HTTP requests issued by the current client invocation
  delay,            \* the argument of the asyncio.sleep a task is in
  reports,          \* the report files written into each directory
  calls,            \* analyze_with_claude invocations each task has made (lines 219, 240)
  issued,           \* HTTP requests each task has issued, over all its invocations
  call,             \* a call of a pure function on its own: the function and its arguments
  result            \* what that call returned: <<>> until it has, then <<value>>

vars == <<isdir, tree, listing, api, run, dirs_to_process, semaphore, pc,
          retry_count, client_retry, analysis, requests, delay, reports,
          calls, issued, call, result>>

\* The variables of a call of truncate_content or verify_markdown on its
\* own; a run of the program leaves them alone.
pure == <<call, result>>
NoCall == [fn |-> "none"]

world == <<isdir, tree, listing, api>>

Terminal == {"written", "failed", "skipped", "crashed", "cancelled"}
Finished == {"written", "failed", "skipped"}
Holding  == {"request", "backoff", "sleep"}

Init ==
  /\ isdir \in BOOLEAN
  /\ tree \in IF isdir THEN Trees(MaxDirs) ELSE {{}}
  /\ listing \in [tree -> Listings]
  /\ api \in IF Cardinality(tree) = 1 THEN {"any", "always429", "malformed200"}
              ELSE IF Cardinality(tree) <= MaxDirsAnyApi THEN {"any"}
              ELSE {"answering"}
  /\ run = "start"
  /\ dirs_to_process = {}
  /\ semaphore = MAX_CONCURRENT_REQUESTS
  /\ pc = [d \in tree |-> "none"]
  /\ retry_count = [d \in tree |-> 0]
  /\ client_retry = [d \in tree |-> 0]
  /\ analysis = [d \in tree |-> NoValue]
  /\ requests = [d \in tree |-> 0]
  /\ delay = [d \in tree |-> 0]
  /\ reports = [d \in tree |-> <<>>]
  /\ calls = [d \in tree |-> 0]
  /\ issued = [d \in tree |-> 0]
  /\ call = NoCall
  /\ result = <<>>

\* --------------------------------------------------------------- actions
Set(f, d, v) == [f EXCEPT ![d] = v]

\* The count of a task's requests after one more request.  The count is
\* kept in the runs whose tree is the target directory alone (where the
\* API is free to answer anything, or every request alike) and left at 0
\* in the others: tasks share nothing but the semaphore.
Meter(count) == IF tree = {base_dir} THEN count + 1 ELSE count

\* The locals of a task whose coroutine has ended are gone.
DropLocals(d) ==
  /\ retry_count' = Set(retry_count, d, 0)
  /\ client_retry' = Set(client_retry, d, 0)
  /\ analysis' = Set(analysis, d, NoValue)
  /\ requests' = Set(requests, d, 0)
  /\ delay' = Set(delay, d, 0)
  /\ calls' = Set(calls, d, 0)
  /\ issued' = Set(issued, d, 0)

\* lines 265, 268: one task per collected directory, all created at once
CreateTasks(dirs) == [d \in tree |-> IF d \in dirs THEN "pending" ELSE "none"]

\* main, lines 270-276, and process_all_directories, lines 246-268, up to
\* the await of gather.
Main ==
  /\ run = "start"
  /\ IF ~isdir
       THEN /\ run' = "rejected"                               \* 271-273
            /\ UNCHANGED <<dirs_to_process, pc>>
       ELSE /\ dirs_to_process' = CollectDirs(tree)            \* 249-253
            /\ pc' = CreateTasks(CollectDirs(tree))            \* 265-268
            /\ run' = "gather"
  /\ UNCHANGED <<world, pure, semaphore, retry_count, client_retry, analysis,
                 requests, delay, reports, calls, issued>>

\* Mutant of CanAcquire: the block is entered whatever the permits left.
CanAcquire_Always(value) == TRUE

\* Mutant of CanAcquire: the test of the permits left is off by one.
CanAcquire_OffByOne(value) == value >= 0

\* async with semaphore (line 261): a permit must be left
CanAcquire(value) == value > 0

\* process_with_semaphore, lines 260-262, and analyze_single_directory,
\* lines 189-219, up to the first request.  A directory that is skipped
\* gives its permit back in the same step.  Any task that has not entered
\* the block may be the next to enter it: the order in which the semaphore
\* wakes its waiters is left open.
Acquire(d) ==
  /\ run = "gather"
  /\ pc[d] = "pending"
  /\ CanAcquire(semaphore)
  /\ IF should_skip_directory(d) \/ EligibleFiles(listing[d]) = {}
       THEN /\ pc' = Set(pc, d, "skipped")                      \* 189-191, 204-205
            /\ UNCHANGED <<semaphore, client_retry, requests, calls, issued>>
       ELSE /\ pc' = Set(pc, d, "request")                      \* 219
            /\ semaphore' = semaphore - 1
            /\ client_retry' = Set(client_retry, d, 0)
            /\ requests' = Set(requests, d, 1)
            /\ calls' = Set(calls, d, 1)
            /\ issued' = Set(issued, d, Meter(issued[d]))
  /\ UNCHANGED <<world, pure, run, dirs_to_process, retry_count, analysis, delay, reports>>

\* Mutant of output_dir: the report goes to the directory the run was
\* started on (the other parameter of analyze_single_directory).
output_dir_Base(directory) == base_dir

\* line 227: the directory output_file is joined onto
output_dir(directory) == directory

\* Mutant of ValidateTurn: when the attempts run out the last value is
\* saved all the same.
ValidateTurn_SavesLast(count, content) ==
  LET valid == verify_markdown(content) IN
  IF valid = "raise" THEN [act |-> "raise", count |-> count, wait |-> 0]
  ELSE IF valid = "True" THEN [act |-> "write", count |-> count, wait |-> 0]
  ELSE IF count + 1 < MAX_RETRIES
    THEN [act |-> "sleep", count |-> count + 1, wait |-> RETRY_DELAY * (count + 1)]
    ELSE [act |-> "write", count |-> count + 1, wait |-> 0]

\* Mutant of ValidateTurn: the sleep before a new call does not grow with
\* the attempts.
ValidateTurn_FlatDelay(count, content) ==
  LET valid == verify_markdown(content) IN
  IF valid = "raise" THEN [act |-> "raise", count |-> count, wait |-> 0]
  ELSE IF valid = "True" THEN [act |-> "write", count |-> count, wait |-> 0]
  ELSE IF count + 1 < MAX_RETRIES
    THEN [act |-> "sleep", count |-> count + 1, wait |-> RETRY_DELAY]
    ELSE [act |-> "fail", count |-> count + 1, wait |-> 0]

\* Mutant of ValidateTurn: the test after the increment lets the sleep
\* and the new call through once more.
ValidateTurn_CallsAtLast(count, content) ==
  LET valid == verify_markdown(content) IN
  IF ~(count < MAX_RETRIES) THEN [act |-> "exit", count |-> count, wait |-> 0]
  ELSE IF valid = "raise" THEN [act |-> "raise", count |-> count, wait |-> 0]
  ELSE IF valid = "True" THEN [act |-> "write", count |-> count, wait |-> 0]
  ELSE IF count + 1 <= MAX_RETRIES
    THEN [act |-> "sleep", count |-> count + 1,
          wait |-> RETRY_DELAY * (count + 1)]
    ELSE [act |-> "fail", count |-> count + 1, wait |-> 0]

\* One turn of the loop of lines 223-242 on the value `content` the client
\* returned: write it, or sleep `wait` seconds and call the client again,
\* or give up, or let the Validator's exception through; or, were the
\* test of line 223 to fail, leave the loop with the value not looked at.
ValidateTurn(count, content) ==
  LET valid == verify_markdown(content) IN                         \* 224
  IF ~(count < MAX_RETRIES)                                        \* 223
    THEN [act |-> "exit", count |-> count, wait |-> 0]
  ELSE IF valid = "raise" THEN [act |-> "raise", count |-> count, wait |-> 0]
  ELSE IF valid = "True" THEN [act |-> "write", count |-> count, wait |-> 0]
  ELSE IF count + 1 < MAX_RETRIES                                  \* 236-237
    THEN [act |-> "sleep", count |-> count + 1,
          wait |-> RETRY_DELAY * (count + 1)]                      \* 239
    ELSE [act |-> "fail", count |-> count + 1, wait |-> 0]         \* 242

\* Where the task is after a turn.  Leaving the loop at line 223 ends the
\* task with no report, like giving up.
AfterTurn(act) ==
  CASE act = "write" -> "written"
    [] act = "sleep" -> "sleep"
    [] act = "fail"  -> "failed"
    [] act = "exit"  -> "failed"
    [] OTHER         -> "crashed"

\* The request of task d comes to outcome o: lines 119-162 of the current
\* analyze_with_claude call and, when the call returns (through every
\* enclosing recursive call of lines 142, 153, 161, to line 219 or 240),
\* the loop of lines 223-242 up to its sleep or to the end of the task.
\* On every way out but a sleep the coroutine ends, its locals are gone and
\* the permit is given back (line 261).
Respond(d, o) ==
  /\ pc[d] = "request"
  /\ o \in ApiOutcomes(api)
  /\ LET r == analyze_with_claude(client_retry[d], o)
         turn == ValidateTurn(retry_count[d], r.value)
     IN
       CASE r.act = "retry" ->
              /\ pc' = Set(pc, d, "backoff")
              /\ delay' = Set(delay, d, r.wait)
              /\ UNCHANGED <<analysis, client_retry, requests, semaphore,
                             retry_count, reports, calls, issued>>
         [] r.act = "return" /\ turn.act = "sleep" ->
              /\ pc' = Set(pc, d, "sleep")
              /\ analysis' = Set(analysis, d, r.value)               \* 219, 240
              /\ retry_count' = Set(retry_count, d, turn.count)      \* 236
              /\ delay' = Set(delay, d, turn.wait)                   \* 239
              /\ client_retry' = Set(client_retry, d, 0)
              /\ requests' = Set(requests, d, 0)
              /\ UNCHANGED <<semaphore, reports, calls, issued>>
         [] r.act = "return" /\ turn.act # "sleep" ->
              /\ pc' = Set(pc, d, AfterTurn(turn.act))
              /\ reports' = IF turn.act = "write"
                              THEN Set(reports, output_dir(d),
                                       Append(reports[output_dir(d)], r.value))  \* 227-230
                              ELSE reports
              /\ semaphore' = semaphore + 1
              /\ DropLocals(d)
         [] OTHER ->                      \* an exception leaves the client
              /\ pc' = Set(pc, d, "crashed")
              /\ semaphore' = semaphore + 1
              /\ DropLocals(d)
              /\ UNCHANGED reports
  /\ UNCHANGED <<world, pure, run, dirs_to_process>>

\* The sleep of line 141, 152 or 160 ends: the recursive call with
\* retry_count + 1 issues the next request.
BackoffDone(d) ==
  /\ pc[d] = "backoff"
  /\ pc' = Set(pc, d, "request")
  /\ client_retry' = Set(client_retry, d, client_retry[d] + 1)
  /\ requests' = Set(requests, d, requests[d] + 1)
  /\ delay' = Set(delay, d, 0)
  /\ issued' = Set(issued, d, Meter(issued[d]))
  /\ UNCHANGED <<world, pure, run, dirs_to_process, semaphore, retry_count, analysis,
                 reports, calls>>

\* Mutant of SleepDone: the new call is handed the loop's retry_count as
\* its own (one budget for both kinds of retry).
SleepDone_SharedCount(d) ==
  /\ pc[d] = "sleep"
  /\ pc' = Set(pc, d, "request")
  /\ client_retry' = Set(client_retry, d, retry_count[d])
  /\ requests' = Set(requests, d, 1)
  /\ analysis' = Set(analysis, d, NoValue)
  /\ delay' = Set(delay, d, 0)
  /\ calls' = Set(calls, d, calls[d] + 1)
  /\ issued' = Set(issued, d, Meter(issued[d]))
  /\ UNCHANGED <<world, pure, run, dirs_to_process, semaphore, retry_count, reports>>

\* The sleep of line 239 ends: line 240 calls the client anew, with its
\* retry_count parameter at its default 0.  `analysis` is rebound by the
\* call's result and its old value is not read again.
SleepDone(d) ==
  /\ pc[d] = "sleep"
  /\ pc' = Set(pc, d, "request")
  /\ client_retry' = Set(client_retry, d, 0)
  /\ requests' = Set(requests, d, 1)
  /\ analysis' = Set(analysis, d, NoValue)
  /\ delay' = Set(delay, d, 0)
  /\ calls' = Set(calls, d, calls[d] + 1)
  /\ issued' = Set(issued, d, Meter(issued[d]))
  /\ UNCHANGED <<world, pure, run, dirs_to_process, semaphore, retry_count, reports>>

\* Mutant of GatherDone: the wait ends with the first task that ends.
GatherDone_First(states) == \E d \in dirs_to_process : states[d] \in Finished

\* gather (line 268) has all its results
GatherDone(states) == \A d \in dirs_to_process : states[d] \in Finished

\* Every task has ended without an exception: gather returns and main
\* prints its last line (277).
Complete ==
  /\ run = "gather"
  /\ GatherDone(pc)
  /\ run' = "completed"
  /\ UNCHANGED <<world, pure, dirs_to_process, semaphore, pc, retry_count, client_retry,
                 analysis, requests, delay, reports, calls, issued>>

\* A task has ended with an exception: gather (no return_exceptions) hands
\* it to process_all_directories and main, neither of which catches it;
\* asyncio.run (line 285) then cancels every task still alive, each of
\* which leaves its async with block and gives its permit back.
\* (CancelledError is a BaseException, which the except clauses of lines
\* 147 and 155 do not catch.)  Tasks may still move between the exception
\* and the step in which main gets it.
Abort ==
  /\ run = "gather"
  /\ \E d \in dirs_to_process : pc[d] = "crashed"
  /\ run' = "aborted"
  /\ pc' = [d \in tree |-> IF pc[d] \in {"pending"} \cup Holding
                             THEN "cancelled" ELSE pc[d]]
  /\ semaphore' = semaphore + Cardinality({d \in tree : pc[d] \in Holding})
  /\ retry_count' = [d \in tree |-> 0]
  /\ client_retry' = [d \in tree |-> 0]
  /\ analysis' = [d \in tree |-> NoValue]
  /\ requests' = [d \in tree |-> 0]
  /\ delay' = [d \in tree |-> 0]
  /\ calls' = [d \in tree |-> 0]
  /\ issued' = [d \in tree |-> 0]
  /\ UNCHANGED <<world, pure, dirs_to_process, reports>>

Next ==
  \/ Main
  \/ \E d \in tree : Acquire(d)
  \/ \E d \in tree : \E o \in Outcomes : Respond(d, o)
  \/ \E d \in tree : BackoffDone(d)
  \/ \E d \in tree : SleepDone(d)
  \/ Complete
  \/ Abort

Spec == Init /\ [][Next]_vars

\* ----------------------------------------------- pure functions alone
\* The variables of a run of the program.
program == <<isdir, tree, listing, api, run, dirs_to_process, semaphore, pc,
             retry_count, client_retry, analysis, requests, delay, reports,
             calls, issued>>

\* The strings of at most n characters over Chars.
Chars == {"a", "b"}
RECURSIVE Strings(_)
Strings(n) ==
  IF n = 0 THEN {<<>>}
  ELSE LET shorter == Strings(n - 1) IN
       shorter \cup { Append(s, c) : s \in {x \in shorter : Len(x) = n - 1}, c \in Chars }

\* A bundle one character longer than MAX_CONTENT_LENGTH.
LongContent ==
  [i \in 1..(MAX_CONTENT_LENGTH + 1) |-> IF 2 * i <= MAX_CONTENT_LENGTH THEN "a" ELSE "b"]

\* The calls of truncate_content: every short string with every small
\* max_length, and the call of line 74 on a bundle that is too long.
TruncateCalls ==
  { [fn |-> "truncate_content", content |-> s, max_length |-> m] :
      s \in Strings(MaxLen), m \in 0..MaxLen }
  \cup { [fn |-> "truncate_content", content |-> LongContent,
          max_length |-> MAX_CONTENT_LENGTH] }

\* The texts handed to verify_markdown: the empty string, blank strings,
\* and strings around the minimum length with up to MaxPad whitespace
\* characters at each end and any of the required sections in them.
ValidatorLengths == (MinReportLength - MaxPad - 1)..(MinReportLength + MaxPad + 1)
ValidatorTexts ==
  {EmptyText}
  \cup { Text(n, n, 0, {}) : n \in ValidatorLengths }
  \cup { Text(n, l, t, secs) : n \in ValidatorLengths, l \in 0..MaxPad, t \in 0..MaxPad,
                               secs \in SUBSET required_sections }
VerifyCalls ==
  { [fn |-> "verify_markdown", content |-> Str(tx, "content")] : tx \in ValidatorTexts }

\* No run of the program: only the function called is looked at.
PureInit ==
  /\ \/ call \in TruncateCalls
     \/ call \in VerifyCalls
  /\ result = <<>>
  /\ isdir = FALSE
  /\ tree = {}
  /\ listing = [d \in tree |-> {}]
  /\ api = "any"
  /\ run = "start"
  /\ dirs_to_process = {}
  /\ semaphore = MAX_CONCURRENT_REQUESTS
  /\ pc = [d \in tree |-> "none"]
  /\ retry_count = [d \in tree |-> 0]
  /\ client_retry = [d \in tree |-> 0]
  /\ analysis = [d \in tree |-> NoValue]
  /\ requests = [d \in tree |-> 0]
  /\ delay = [d \in tree |-> 0]
  /\ reports = [d \in tree |-> <<>>]
  /\ calls = [d \in tree |-> 0]
  /\ issued = [d \in tree |-> 0]

Truncate ==
  /\ call.fn = "truncate_content"
  /\ result = <<>>
  /\ result' = <<truncate_content(call.content, call.max_length)>>
  /\ UNCHANGED <<program, call>>

Verify ==
  /\ call.fn = "verify_markdown"
  /\ result = <<>>
  /\ result' = <<verify_markdown(call.content)>>
  /\ UNCHANGED <<program, call>>

PureNext == Truncate \/ Verify

PureSpec == PureInit /\ [][PureNext]_vars

\* ================================================================ claims
Tasks == {d \in tree : pc[d] # "none"}

\* The value the client handed back in a step in which task d's call
\* returned and the task went on (NoValue where the step leaves none).
Handed(d) ==
  IF pc'[d] = "sleep" THEN analysis'[d]
  ELSE IF pc'[d] = "written" THEN reports'[d][Len(reports'[d])]
  ELSE NoValue

\* The tasks whose request came to its outcome in this step.
Answered == {d \in tree : pc[d] = "request" /\ pc'[d] # "request"}

\* C1: every report file written so far holds a value that verify_markdown
\* accepts; no rejected value is ever in a report file.
C1_WrittenOnlyIfValid ==
  \A d \in tree : \A i \in 1..Len(reports[d]) :
    verify_markdown(reports[d][i]) = "True"

\* A run in which one directory got its report and another gave up.
C1_WitnessWritten ==
  \E d \in tree : pc[d] = "written" /\ Len(reports[d]) = 1
                  /\ \E e \in tree : pc[e] = "failed"

\* C2: the tasks between acquiring and giving back a permit (request in
\* flight, backoff sleep, validation sleep) are never more than
\* MAX_CONCURRENT_REQUESTS, and the permits held are exactly as many.
C2_ConcurrencyCeiling ==
  LET held == MAX_CONCURRENT_REQUESTS - semaphore
      busy == {d \in tree : pc[d] \in Holding}
  IN /\ Cardinality(busy) <= MAX_CONCURRENT_REQUESTS
     /\ held = Cardinality(busy)
     /\ held <= MAX_CONCURRENT_REQUESTS
     /\ semaphore >= 0

C2_WitnessSaturated ==
  /\ semaphore = 0
  /\ Cardinality({d \in tree : pc[d] \in {"request", "backoff"}}) = MAX_CONCURRENT_REQUESTS
  /\ \E d \in tree : pc[d] = "pending"

\* C3: whatever the request comes to, the client's pass neither lets an
\* exception out nor returns anything but a string.
C3_ClientReturnsString ==
  [][\A d \in Answered : \A o \in Outcomes :
       Respond(d, o) =>
         LET r == analyze_with_claude(client_retry[d], o) IN
           /\ r.act # "raise"
           /\ r.act = "return" => r.value.type = "str"]_vars

\* C4: against an API that answers 429 to every request, a client
\* invocation sleeps RETRY_DELAY * k before its k-th retry (k = 1..MAX_RETRIES),
\* each retry is one more request, and the invocation returns only after
\* request MAX_RETRIES + 1, with the max-retries message of the last body.
C4_Always429 ==
  [][\A d \in Answered : \A o \in Outcomes :
       (api = "always429" /\ Respond(d, o)) =>
         /\ requests[d] \in 1..(MAX_RETRIES + 1)
         /\ requests[d] <= MAX_RETRIES =>
              /\ pc'[d] = "backoff"
              /\ delay'[d] = RETRY_DELAY * requests[d]
              /\ requests'[d] = requests[d]
         /\ requests[d] = MAX_RETRIES + 1 =>
              /\ pc'[d] \in {"sleep", "written", "failed"}
              /\ pc'[d] # "failed" => Handed(d) = MaxRetriesMessage(o.body.raw)
              /\ analyze_with_claude(client_retry[d], o).value = MaxRetriesMessage(o.body.raw)]_vars
     /\ [][\A d \in tree :
             (api = "always429" /\ pc[d] = "backoff" /\ pc'[d] # "backoff") =>
               pc'[d] = "request" /\ requests'[d] = requests[d] + 1]_vars

C4_WitnessGaveUp ==
  /\ api = "always429"
  /\ \E d \in tree : pc[d] = "sleep" /\ analysis[d].origin = "max_retries"

\* C5 as stated: a malformed 200 ends the client invocation at once; the
\* client neither sleeps nor issues another request for it.
C5_MalformedNotRetried ==
  [][\A d \in Answered : \A o \in {x \in Outcomes : Malformed(x)} :
       Respond(d, o) => pc'[d] \notin {"backoff", "request"}]_vars

\* C5 as amended: a malformed 200 is handled as an unexpected exception:
\* while the client's retry_count is below MAX_RETRIES the invocation
\* sleeps RETRY_DELAY * (retry_count + 1) and then issues another request
\* itself; only at retry_count = MAX_RETRIES does it return the error
\* string, and the Directory Analyzer's loop takes over.
C5_MalformedRetriedByClient ==
  [][\A d \in Answered : \A o \in {x \in Outcomes : Malformed(x)} :
       Respond(d, o) =>
         IF client_retry[d] < MAX_RETRIES
           THEN /\ pc'[d] = "backoff"
                /\ delay'[d] = RETRY_DELAY * (client_retry[d] + 1)
           ELSE /\ pc'[d] \in {"sleep", "failed"}
                /\ pc'[d] = "sleep" => analysis'[d] = ErrorMessage]_vars
  /\ [][\A d \in tree :
          (pc[d] = "backoff" /\ pc'[d] \notin {"backoff", "cancelled"}) =>
            /\ pc'[d] = "request"
            /\ client_retry'[d] = client_retry[d] + 1
            /\ retry_count'[d] = retry_count[d]]_vars

\* Only malformed 200s were received: the client is at its last retry of a
\* second invocation, the first having returned the error string.
C5_WitnessRetrying ==
  /\ api = "malformed200"
  /\ \E d \in tree : /\ pc[d] = "request"
                     /\ client_retry[d] = MAX_RETRIES
                     /\ requests[d] = MAX_RETRIES + 1
                     /\ retry_count[d] > 0

\* A response whose status is neither 200 nor 429.
OtherStatus(o) == o.kind = "response" /\ o.status \notin {200, 429}

\* C6: a response whose status is neither 200 nor 429 ends the client
\* invocation in the same step with the API-error string of its body, at
\* any retry count: no backoff sleep, no further request of the invocation.
C6_OtherStatusReturnsAtOnce ==
  [][\A d \in Answered : \A o \in {x \in Outcomes : OtherStatus(x)} :
       Respond(d, o) =>
         /\ pc'[d] \in {"sleep", "written", "failed"}
         /\ requests'[d] = 0 /\ client_retry'[d] = 0
         /\ pc'[d] = "sleep" => delay'[d] = RETRY_DELAY * retry_count'[d]
         /\ pc'[d] # "failed" => Handed(d) = ApiErrorMessage(o.status, o.body.raw)
         /\ analyze_with_claude(client_retry[d], o)
              = Return(ApiErrorMessage(o.status, o.body.raw))]_vars

C6_WitnessApiError ==
  \E d \in tree : pc[d] = "sleep" /\ analysis[d].origin = "api_error"

\* C7: no task ends with an exception and no task is cancelled: every task
\* that has ended is in one of the three outcomes of its own run.
C7_FailuresContained ==
  /\ run # "aborted"
  /\ \A d \in tree : pc[d] \notin {"crashed", "cancelled"}

\* C8: the run cannot come to rest anywhere but at completion (or at the
\* rejection of a target that is no directory), with every task ended as
\* written, failed or skipped and no task left waiting for a permit.
C8_RestsOnlyWhenComplete ==
  (~ENABLED Next) =>
     /\ run \in {"completed", "rejected"}
     /\ \A d \in dirs_to_process : pc[d] \in Finished

\* C9: once any task has moved, every collected directory has its task; and
\* completion is reported only when every task has ended as written, failed
\* or skipped and every permit is back.
C9_CompletionAfterAllTasks ==
  /\ (\E d \in tree : pc[d] \notin {"none", "pending"}) =>
        \A d \in dirs_to_process : pc[d] # "none"
  /\ run # "start" /\ isdir => Tasks = dirs_to_process
  /\ run = "completed" =>
        /\ \A d \in dirs_to_process : pc[d] \in Finished
        /\ semaphore = MAX_CONCURRENT_REQUESTS

C9_WitnessCompleted ==
  /\ run = "completed"
  /\ Cardinality(dirs_to_process) >= 2
  /\ \E d \in tree : pc[d] = "written"
  /\ \E d \in tree : pc[d] = "failed"

\* C10 as stated: no directory named as an entry of SKIP_DIRS is in
\* dirs_to_process.
C10_SkipNamesNotCollected ==
  \A d \in dirs_to_process : basename(d) \notin SKIP_DIRS

\* C10 as amended: no directory whose path contains 'node_modules' is put
\* into dirs_to_process; a directory named as another entry of SKIP_DIRS is
\* put into it, and its task is skipped without a request and without a
\* report, even when it contains eligible files.
C10_SkipNamesCollectedButSkipped ==
  /\ \A d \in dirs_to_process : ~InNodeModules(d)
  /\ run \notin {"start", "rejected"} =>
       \A d \in tree :
         (basename(d) \in SKIP_DIRS /\ ~InNodeModules(d)) =>
           /\ d \in dirs_to_process
           /\ pc[d] \in {"pending", "skipped", "cancelled"}
           /\ reports[d] = <<>>

C10_WitnessSkipped ==
  \E d \in dirs_to_process :
    /\ basename(d) \in SKIP_DIRS
    /\ EligibleFiles(listing[d]) # {}
    /\ pc[d] = "skipped"
    /\ run = "completed"

\* A directory none of whose direct children is a file with an analyzable
\* extension.
NoAnalyzableChild(d) ==
  \A e \in listing[d] : ~(e.isfile /\ Lower(e.ext) \in ANALYZE_EXTENSIONS)

\* C11: a task whose directory is named in SKIP_DIRS, or has no direct
\* child that is a file with an analyzable extension, never has a request
\* in flight, never sleeps and never has a report file: it waits for its
\* turn and is then skipped (or is cancelled while it waits), whatever the
\* directories below it hold.
C11_IneligibleSkipped ==
  \A d \in tree :
    (basename(d) \in SKIP_DIRS \/ NoAnalyzableChild(d)) =>
      /\ pc[d] \in {"none", "pending", "skipped", "cancelled"}
      /\ calls[d] = 0 /\ requests[d] = 0 /\ issued[d] = 0
      /\ delay[d] = 0
      /\ reports[d] = <<>>

\* The target directory holds only an image and was skipped, while a
\* directory right below it, which holds a source file, got its report.
C11_WitnessSkippedAboveSource ==
  /\ run = "completed"
  /\ \E d \in tree : \E name \in DirNames :
       /\ NoAnalyzableChild(d) /\ basename(d) \notin SKIP_DIRS
       /\ pc[d] = "skipped"
       /\ Append(d, name) \in tree
       /\ ~NoAnalyzableChild(Append(d, name))
       /\ pc[Append(d, name)] = "written"

\* C12: a directory holds one report file if its task ended by writing,
\* and none in every other case (failed, skipped, still running, ended by
\* an exception, cancelled): each task writes at most once, into its own
\* directory, and no task writes into the directory of another.
C12_OneReportInOwnDirectory ==
  \A d \in tree : Len(reports[d]) = IF pc[d] = "written" THEN 1 ELSE 0

\* A completed run with a report in a directory below the target and none
\* in the target's, whose task gave up, nor in a skipped directory.
C12_WitnessWrittenFailedSkipped ==
  /\ run = "completed"
  /\ pc[base_dir] = "failed" /\ reports[base_dir] = <<>>
  /\ \E d \in tree : pc[d] = "written" /\ d # base_dir /\ Len(reports[d]) = 1
  /\ \E d \in tree : pc[d] = "skipped" /\ reports[d] = <<>>

\* C13: for every call of truncate_content with len(content) > max_length
\* (max_length >= 0), the result is 2 * (max_length // 2) + len(marker)
\* characters long, its first max_length // 2 characters are the first of
\* content and its last max_length // 2 characters are the last of content.
C13_TruncatedShape ==
  (call.fn = "truncate_content" /\ result # <<>>
     /\ Len(call.content) > call.max_length) =>
    LET out  == result[1]
        half == call.max_length \div 2
        n    == Len(call.content)
    IN /\ Len(out) = 2 * half + Len(ElisionMarker)
       /\ SubSeq(out, 1, half) = SubSeq(call.content, 1, half)
       /\ SubSeq(out, Len(out) - half + 1, Len(out)) = SubSeq(call.content, n - half + 1, n)

\* C14: verify_markdown of a text is True exactly when the text is not
\* empty, its length without the whitespace at its ends is at least
\* MinReportLength, and all five required sections occur in it; it is
\* False for the empty text, for a text whose stripped length is below
\* MinReportLength, and for a text that lacks exactly one of the five.
C14_ValidatorVerdict ==
  (call.fn = "verify_markdown" /\ result # <<>>) =>
    LET tx       == call.content.text
        stripped == tx.len - tx.lead - tx.trail
    IN /\ result[1] \in {"True", "False"}
       /\ result[1] = "True" <=>
            /\ tx.len > 0
            /\ stripped >= MinReportLength
            /\ \A section \in required_sections : section \in tx.secs
       /\ tx.len = 0 => result[1] = "False"
       /\ stripped < MinReportLength => result[1] = "False"
       /\ Cardinality(required_sections \ tx.secs) = 1 => result[1] = "False"

\* A text accepted at the very limit: longer than MinReportLength with
\* whitespace at both ends, exactly MinReportLength without it.
C14_WitnessAcceptedAtLimit ==
  /\ call.fn = "verify_markdown"
  /\ result = <<"True">>
  /\ call.content.text.lead > 0 /\ call.content.text.trail > 0
  /\ StripLen(call.content.text) = MinReportLength

\* The client, at retry count `count`, returns on outcome o a value that
\* verify_markdown rejects.
Rejected(count, o) ==
  LET r == analyze_with_claude(count, o) IN
  r.act = "return" /\ verify_markdown(r.value) = "False"

\* The API profiles of Init, and for each client retry count and profile
\* the outcomes of the profile that end the call with a rejected value.
Profiles == {"any", "always429", "malformed200", "answering"}
RejectedBy ==
  [count \in 0..MAX_RETRIES, profile \in Profiles |->
     {o \in ApiOutcomes(profile) : Rejected(count, o)}]

\* C15 as stated: every rejection met with retry_count below MAX_RETRIES
\* is followed by the increment and the sleep of RETRY_DELAY * retry_count
\* (and so by a new call), also the one that takes retry_count to
\* MAX_RETRIES.
C15_RejectionAlwaysRetried ==
  [][\A d \in Answered : \A o \in {x \in Outcomes : Rejected(client_retry[d], x)} :
       (retry_count[d] < MAX_RETRIES /\ Respond(d, o)) =>
         /\ pc'[d] = "sleep"
         /\ retry_count'[d] = retry_count[d] + 1
         /\ delay'[d] = RETRY_DELAY * retry_count'[d]]_vars

\* C15 as amended: a rejection increments retry_count; while the new
\* retry_count is below MAX_RETRIES the task sleeps RETRY_DELAY * retry_count
\* and, the sleep over, calls the client anew (a new request at client
\* retry count 0, the old value dropped, retry_count untouched); when the
\* new retry_count is MAX_RETRIES the task ends as failed at once, with no
\* sleep, no new call and no report.  (First conjunct: a step that answers
\* the request of d either has this effect or is the answer to no outcome
\* that ends the call with a rejected value.)
C15_RejectionRetriedWhileBudget ==
  /\ [][\A d \in Answered :
          retry_count[d] < MAX_RETRIES =>
            \/ IF retry_count[d] + 1 < MAX_RETRIES
                 THEN /\ pc'[d] = "sleep"
                      /\ retry_count'[d] = retry_count[d] + 1
                      /\ delay'[d] = RETRY_DELAY * retry_count'[d]
                      /\ verify_markdown(analysis'[d]) = "False"
                      /\ reports'[d] = reports[d]
                 ELSE /\ pc'[d] = "failed"
                      /\ delay'[d] = 0
                      /\ reports'[d] = reports[d]
            \/ \A o \in RejectedBy[client_retry[d], api] : ~Respond(d, o)]_vars
  /\ [][\A d \in tree :
          (pc[d] = "sleep" /\ pc'[d] \notin {"sleep", "cancelled"}) =>
            /\ pc'[d] = "request"
            /\ calls'[d] = calls[d] + 1
            /\ client_retry'[d] = 0 /\ requests'[d] = 1
            /\ analysis'[d] = NoValue
            /\ retry_count'[d] = retry_count[d]]_vars

\* The sleep before the last call: a report lacking a section was rejected
\* for the (MAX_RETRIES - 1)-th time.
C15_WitnessLastSleep ==
  \E d \in tree :
    /\ pc[d] = "sleep"
    /\ retry_count[d] = MAX_RETRIES - 1
    /\ delay[d] = RETRY_DELAY * (MAX_RETRIES - 1)
    /\ analysis[d].origin = "content"
    /\ calls[d] = MAX_RETRIES - 1

Inside == {e \in tree : pc[e] \in Holding}

\* C17 as stated: the listing and reading of a directory need no permit: a
\* task that has not yet looked at its directory can do so whatever the
\* number of tasks inside the block.
C17_CollectsWithoutPermit ==
  \A d \in tree :
    (run = "gather" /\ pc[d] = "pending") => ENABLED Acquire(d)

\* C17 as amended: the listing and reading of a directory are inside the
\* block, like the requests: a waiting task can take the step in which it
\* looks at its directory exactly when fewer than MAX_CONCURRENT_REQUESTS
\* tasks are inside, so no task collects files while
\* MAX_CONCURRENT_REQUESTS others are in flight.
C17_CollectNeedsPermit ==
  \A d \in tree :
    (run = "gather" /\ pc[d] = "pending") =>
      ((ENABLED Acquire(d)) <=> (Cardinality(Inside) < MAX_CONCURRENT_REQUESTS))

\* A task with source files to read is kept waiting, its directory not
\* yet listed, by MAX_CONCURRENT_REQUESTS tasks with a request in flight.
C17_WitnessCollectWaits ==
  \E d \in tree :
    /\ run = "gather" /\ pc[d] = "pending"
    /\ ~should_skip_directory(d) /\ EligibleFiles(listing[d]) # {}
    /\ Cardinality({e \in tree : pc[e] = "request"}) = MAX_CONCURRENT_REQUESTS
    /\ ~ENABLED Acquire(d)

\* An outcome on one of the three retry paths: a 429, a failure of the
\* transport, or any other exception (raised by the request, or by the
\* handling of a 200 whose body is not what lines 126-128 expect).
Retryable(o) ==
  \/ o.kind # "response"
  \/ o.status = 429
  \/ o.status = 200 /\ (o.body.form # "content" \/ o.body.content.type \notin {"str", "list"})

\* The retryable outcomes each API profile can produce.
RetryableFrom == [profile \in Profiles |-> {o \in ApiOutcomes(profile) : Retryable(o)}]

\* The strings a client call returns when its retries are used up.
GaveUpMessages(o) ==
  {MaxRetriesMessage(o.body.raw), NetworkErrorMessage, ErrorMessage}

C19_OnlyContentWritten ==
  \A d \in tree : \A i \in 1..Len(reports[d]) :
    reports[d][i].origin = "content"

\* C20: a task calls the client at most MAX_RETRIES times, and whenever a
\* call is under way the loop's retry_count is below MAX_RETRIES, so that
\* whatever the request comes to, the value the call returns is handed to
\* verify_markdown (line 224) before anything else: the task never ends
\* with a value it fetched and did not validate.
C20_EveryResultValidated ==
  \A d \in tree :
    /\ calls[d] <= MAX_RETRIES
    /\ pc[d] \in {"request", "backoff"} =>
         /\ calls[d] = retry_count[d] + 1
         /\ retry_count[d] < MAX_RETRIES
         /\ \A o \in ApiOutcomes(api) :
              LET r == analyze_with_claude(client_retry[d], o) IN
              r.act = "return" => ValidateTurn(retry_count[d], r.value).act # "exit"
    /\ pc[d] = "sleep" => calls[d] = retry_count[d] /\ retry_count[d] < MAX_RETRIES
    /\ pc[d] \notin Holding => calls[d] = 0

\* The last call a task can make is under way, MAX_RETRIES - 1 values
\* having been validated and rejected before it.
C20_WitnessLastCall ==
  \E d \in tree :
    /\ pc[d] = "request"
    /\ calls[d] = MAX_RETRIES
    /\ retry_count[d] = MAX_RETRIES - 1
    /\ client_retry[d] = 0
====
